---- MODULE Spec2Model ----
(***************************************************************************)
(* Model of the AIDiscoveryFHE contract: access registry, rate limiter,    *)
(* batch store, encrypted aggregation and the oracle-mediated decryption   *)
(* protocol (requestDiscovery / myCallback).                               *)
(*                                                                         *)
(* Every external call is one atomic transaction.  A call that reverts     *)
(* leaves the whole contract storage as it was and emits nothing; the      *)
(* outcome of a call is given by its ...Err operator, and the variable     *)
(* `last` holds the last successful call with the event it emitted.        *)
(*                                                                         *)
(* Ciphertext handles produced by the FHE library are modelled as the      *)
(* symbolic term of the operation that produced them (the library derives  *)
(* a result handle from the operator and its operand handles), and         *)
(* keccak256 as an injective constructor.                                  *)
(***************************************************************************)
EXTENDS Integers, Sequences, FiniteSets, TLC

(* ---------------------------- bounds ----------------------------------- *)
MaxTime == 2           \* block.timestamp ranges over 1..MaxTime
MaxBatches == 2        \* openBatch is explored while currentBatchId < MaxBatches
MaxBatchLen == 2       \* values held by one batch
MaxRequests == 2       \* request ids handed out by the oracle: 0..MaxRequests-1
MaxAdminCalls == 2     \* successful administrative calls explored in one behaviour
OneBatch == 1          \* batches opened in the specifications that focus elsewhere
UintMax == 3           \* largest uint256 value, scaled to the model's clock
Euint32Modulus == 65536  \* number of euint32 values, scaled from 2^32

(* ---------------------------- constants -------------------------------- *)
SCALE == 1000
ZeroAddress == "0x0"
Deployer == "deployer"
Other == "other"
Oracle == "oracle"
ThisAddress == "this"

Addresses == {ZeroAddress, Deployer, Other}
Senders == {Deployer, Other}
BatchIds == 0..MaxBatches
RequestIds == 0..MaxRequests
Cooldowns == {0, 1, UintMax}
Words == {20000, 7}                  \* decoded cleartext words
Never == 0 - 1
AdminOps == {"transferOwnership", "addProvider", "removeProvider", "setPaused",
             "setCooldownSeconds"}

VARIABLES owner, isProvider, paused, cooldownSeconds,
          lastSubmissionTime, lastDecryptionRequestTime,
          currentBatchId, isBatchOpen, encryptedDataBatches,
          decryptionContexts,
          now, counterRequest, adminCalls,
          last, closedEver, completedCount, rejected, submittedCount,
          okSubmitAt, okRequestAt

storage == <<owner, isProvider, paused, cooldownSeconds,
             lastSubmissionTime, lastDecryptionRequestTime,
             currentBatchId, isBatchOpen, encryptedDataBatches,
             decryptionContexts>>
history == <<closedEver, completedCount, rejected, submittedCount,
             okSubmitAt, okRequestAt>>
vars == <<storage, now, counterRequest, adminCalls, last, history>>

(* ------------------------ FHE library and hashing ---------------------- *)
asEuint32(n) == <<"trivial", n>>
add(a, b) == <<"add", a, b>>
mul(a, b) == <<"mul", a, b>>
div(a, b) == <<"div", a, b>>
isInitialized(v) == v # 0

ZeroHash == <<>>
keccak256(ctsAsBytes, addr) == <<"keccak", ctsAsBytes, addr>>

(* faulty variant: the digest also binds the oracle's request counter *)
_hashCiphertexts_Counter(cts) == keccak256(cts, <<ThisAddress, counterRequest>>)

_hashCiphertexts(cts) == keccak256(cts, ThisAddress)

RECURSIVE sumLoop(_, _, _)
sumLoop(sum, data, i) ==
    IF i > Len(data) THEN sum
    ELSE sumLoop(add(sum, data[i]), data, i + 1)

average(data) ==
    div(mul(sumLoop(asEuint32(0), data, 1), asEuint32(SCALE)), asEuint32(Len(data)))

(* The cleartext behind the aggregate: euint32 arithmetic wraps modulo the  *)
(* width of the type, and division truncates.  plaintext gives the value    *)
(* encrypted under each input handle.                                       *)
wrap32(n) == n % Euint32Modulus
plaintext == [h \in {1, 2} |-> IF h = 1 THEN 40 ELSE 10]

RECURSIVE sumPlain(_, _, _)
sumPlain(sum, data, i) ==
    IF i > Len(data) THEN sum
    ELSE sumPlain(wrap32(sum + plaintext[data[i]]), data, i + 1)

decryptAverage(data) ==
    wrap32(sumPlain(wrap32(0), data, 1) * wrap32(SCALE)) \div wrap32(Len(data))

aggregateHash(batchId) == _hashCiphertexts(<<average(encryptedDataBatches[batchId])>>)

(* proof = [rid, ct, signed]: a signature of the oracle over (rid, ct), or a forgery *)
checkSignatures(requestId, cleartexts, proof) ==
    proof.signed /\ proof.rid = requestId /\ proof.ct = cleartexts

abiDecode(cleartexts) == cleartexts[1]

Cleartexts == {<<w>> : w \in Words}
Forged == [rid |-> 0, ct |-> <<0>>, signed |-> FALSE]
Proofs == [rid : RequestIds, ct : Cleartexts, signed : {TRUE}] \cup {Forged}

(* ------------------------------ modifiers ------------------------------ *)
(* faulty variant: a provider passes the owner gate *)
onlyOwner_OrProvider(sender) == sender = owner \/ isProvider[sender]

onlyOwner(sender) == sender = owner

(* faulty variant: the owner passes the provider gate *)
onlyProvider_OrOwner(sender) == isProvider[sender] \/ sender = owner

onlyProvider(sender) == isProvider[sender]

checkedAdd(a, b) == IF a + b > UintMax THEN Never ELSE a + b

(* faulty variant: the boundary instant still counts as inside the cooldown *)
rateLimited_Inclusive(lastTime) ==
    LET limit == checkedAdd(lastTime, cooldownSeconds) IN
    IF limit = Never THEN "Panic"
    ELSE IF now <= limit THEN "CooldownActive"
    ELSE "ok"

rateLimited(lastTime) ==
    LET limit == checkedAdd(lastTime, cooldownSeconds) IN
    IF limit = Never THEN "Panic"
    ELSE IF now < limit THEN "CooldownActive"
    ELSE "ok"

submissionRateLimited(sender) == rateLimited(lastSubmissionTime[sender])
decryptionRequestRateLimited(sender) == rateLimited(lastDecryptionRequestTime[sender])

(* faulty variant: the modifier's write survives a failure of the function body *)
stampTime_BeforeBody(lastTimes, sender, e) ==
    IF e \in {"ok", "InvalidBatch", "NotInitialized"}
    THEN [lastTimes EXCEPT ![sender] = now] ELSE lastTimes

(* faulty variant: one cooldown clock shared by all callers *)
stampTime_AllSenders(lastTimes, sender, e) ==
    IF e = "ok" THEN [a \in DOMAIN lastTimes |-> now] ELSE lastTimes

(* the modifiers' write of block.timestamp; a revert of the call discards it *)
stampTime(lastTimes, sender, e) ==
    IF e = "ok" THEN [lastTimes EXCEPT ![sender] = now] ELSE lastTimes

NoContext == [batchId |-> 0, stateHash |-> ZeroHash, processed |-> FALSE]

Init ==
    /\ owner = Deployer
    /\ isProvider = [a \in Addresses |-> FALSE]
    /\ paused = FALSE
    /\ cooldownSeconds = 0
    /\ lastSubmissionTime = [a \in Addresses |-> 0]
    /\ lastDecryptionRequestTime = [a \in Addresses |-> 0]
    /\ currentBatchId = 0
    /\ isBatchOpen = [b \in BatchIds |-> FALSE]
    /\ encryptedDataBatches = [b \in BatchIds |-> <<>>]
    /\ decryptionContexts = [r \in RequestIds |-> NoContext]
    /\ now = 1
    /\ counterRequest = 0
    /\ adminCalls = 0
    /\ last = [op |-> "constructor", sender |-> Deployer, args |-> <<>>,
               ev |-> <<"OwnershipTransferred", ZeroAddress, Deployer>>]
    /\ closedEver = [b \in BatchIds |-> FALSE]
    /\ completedCount = [r \in RequestIds |-> 0]
    /\ rejected = [r \in RequestIds |-> FALSE]
    /\ submittedCount = [b \in BatchIds |-> 0]
    /\ okSubmitAt = [a \in Addresses |-> Never]
    /\ okRequestAt = [a \in Addresses |-> Never]

(* A call that reverts changes nothing: only a successful transaction is     *)
(* recorded, with the event it emitted.                                      *)
Call(op, sender, args, err, ev) ==
    /\ adminCalls' = IF err = "ok" /\ op \in AdminOps THEN adminCalls + 1 ELSE adminCalls
    /\ last' = IF err = "ok"
               THEN [op |-> op, sender |-> sender, args |-> args, ev |-> ev]
               ELSE last

Tick ==
    /\ now < MaxTime
    /\ now' = now + 1
    /\ UNCHANGED <<storage, counterRequest, adminCalls, last, history>>

(* --------------------------- AccessRegistry ---------------------------- *)
transferOwnershipErr(sender, newOwner) ==
    IF ~onlyOwner(sender) THEN "NotOwner" ELSE "ok"

transferOwnership(sender, newOwner) ==
    LET e == transferOwnershipErr(sender, newOwner) IN
    /\ owner' = IF e = "ok" THEN newOwner ELSE owner
    /\ Call("transferOwnership", sender, <<newOwner>>, e,
                    <<"OwnershipTransferred", owner, newOwner>>)
    /\ UNCHANGED <<isProvider, paused, cooldownSeconds, lastSubmissionTime,
                   lastDecryptionRequestTime, currentBatchId, isBatchOpen,
                   encryptedDataBatches, decryptionContexts, now, counterRequest, history>>

(* faulty variant: the zero address is accepted *)
addProviderErr_NoZeroCheck(sender, provider) ==
    IF ~onlyOwner(sender) THEN "NotOwner" ELSE "ok"

addProviderErr(sender, provider) ==
    IF ~onlyOwner(sender) THEN "NotOwner"
    ELSE IF provider = ZeroAddress THEN "InvalidParameter"
    ELSE "ok"

addProvider(sender, provider) ==
    LET e == addProviderErr(sender, provider) IN
    /\ isProvider' = IF e = "ok" THEN [isProvider EXCEPT ![provider] = TRUE] ELSE isProvider
    /\ Call("addProvider", sender, <<provider>>, e, <<"ProviderAdded", provider>>)
    /\ UNCHANGED <<owner, paused, cooldownSeconds, lastSubmissionTime,
                   lastDecryptionRequestTime, currentBatchId, isBatchOpen,
                   encryptedDataBatches, decryptionContexts, now, counterRequest, history>>

removeProviderErr(sender, provider) ==
    IF ~onlyOwner(sender) THEN "NotOwner"
    ELSE IF ~isProvider[provider] THEN "InvalidParameter"
    ELSE "ok"

removeProvider(sender, provider) ==
    LET e == removeProviderErr(sender, provider) IN
    /\ isProvider' = IF e = "ok" THEN [isProvider EXCEPT ![provider] = FALSE] ELSE isProvider
    /\ Call("removeProvider", sender, <<provider>>, e, <<"ProviderRemoved", provider>>)
    /\ UNCHANGED <<owner, paused, cooldownSeconds, lastSubmissionTime,
                   lastDecryptionRequestTime, currentBatchId, isBatchOpen,
                   encryptedDataBatches, decryptionContexts, now, counterRequest, history>>

setPausedErr(sender, _paused) ==
    IF ~onlyOwner(sender) THEN "NotOwner" ELSE "ok"

setPaused(sender, _paused) ==
    LET e == setPausedErr(sender, _paused) IN
    /\ paused' = IF e = "ok" THEN _paused ELSE paused
    /\ Call("setPaused", sender, <<_paused>>, e, <<"PauseToggled", _paused>>)
    /\ UNCHANGED <<owner, isProvider, cooldownSeconds, lastSubmissionTime,
                   lastDecryptionRequestTime, currentBatchId, isBatchOpen,
                   encryptedDataBatches, decryptionContexts, now, counterRequest, history>>

setCooldownSecondsErr(sender, _cooldownSeconds) ==
    IF ~onlyOwner(sender) THEN "NotOwner" ELSE "ok"

setCooldownSeconds(sender, _cooldownSeconds) ==
    LET e == setCooldownSecondsErr(sender, _cooldownSeconds) IN
    /\ cooldownSeconds' = IF e = "ok" THEN _cooldownSeconds ELSE cooldownSeconds
    /\ Call("setCooldownSeconds", sender, <<_cooldownSeconds>>, e,
                    <<"CooldownSecondsSet", cooldownSeconds, _cooldownSeconds>>)
    /\ UNCHANGED <<owner, isProvider, paused, lastSubmissionTime,
                   lastDecryptionRequestTime, currentBatchId, isBatchOpen,
                   encryptedDataBatches, decryptionContexts, now, counterRequest, history>>

(* ------------------------------ BatchStore ----------------------------- *)
(* faulty variant: openBatch without whenNotPaused *)
openBatchErr_NoPause(sender) ==
    IF ~onlyOwner(sender) THEN "NotOwner" ELSE "ok"

openBatchErr(sender) ==
    IF ~onlyOwner(sender) THEN "NotOwner"
    ELSE IF paused THEN "Paused"
    ELSE "ok"

(* faulty variant: the id counter is advanced twice *)
openBatchId_Skip == currentBatchId + 2

(* faulty variant: the id counter is not advanced *)
openBatchId_NoIncrement == currentBatchId

openBatchId == currentBatchId + 1

(* faulty variant: opening a batch closes every other one *)
markOpen_Exclusive(id) == [b \in BatchIds |-> b = id]

markOpen(id) == [isBatchOpen EXCEPT ![id] = TRUE]

openBatch(sender) ==
    LET e == openBatchErr(sender)
        id == openBatchId IN
    /\ currentBatchId' = IF e = "ok" THEN id ELSE currentBatchId
    /\ isBatchOpen' = IF e = "ok" THEN markOpen(id) ELSE isBatchOpen
    /\ Call("openBatch", sender, <<>>, e, <<"BatchOpened", id>>)
    /\ UNCHANGED <<owner, isProvider, paused, cooldownSeconds, lastSubmissionTime,
                   lastDecryptionRequestTime, encryptedDataBatches, decryptionContexts,
                   now, counterRequest, history>>

(* faulty variant: closeBatch with whenNotPaused *)
closeBatchErr_WhenNotPaused(sender, batchId) ==
    IF ~onlyOwner(sender) THEN "NotOwner"
    ELSE IF paused THEN "Paused"
    ELSE IF ~isBatchOpen[batchId] THEN "InvalidBatch"
    ELSE "ok"

(* faulty variant: the batch is not required to be open *)
closeBatchErr_NoOpenCheck(sender, batchId) ==
    IF ~onlyOwner(sender) THEN "NotOwner" ELSE "ok"

closeBatchErr(sender, batchId) ==
    IF ~onlyOwner(sender) THEN "NotOwner"
    ELSE IF ~isBatchOpen[batchId] THEN "InvalidBatch"
    ELSE "ok"

closeBatch(sender, batchId) ==
    LET e == closeBatchErr(sender, batchId) IN
    /\ isBatchOpen' = IF e = "ok" THEN [isBatchOpen EXCEPT ![batchId] = FALSE] ELSE isBatchOpen
    /\ closedEver' = IF e = "ok" THEN [closedEver EXCEPT ![batchId] = TRUE] ELSE closedEver
    /\ Call("closeBatch", sender, <<batchId>>, e, <<"BatchClosed", batchId>>)
    /\ UNCHANGED <<owner, isProvider, paused, cooldownSeconds, lastSubmissionTime,
                   lastDecryptionRequestTime, currentBatchId, encryptedDataBatches,
                   decryptionContexts, now, counterRequest,
                   completedCount, rejected, submittedCount, okSubmitAt, okRequestAt>>

(* the body loop of submitData: _initIfNeeded, then push, one handle at a time *)
(* faulty variant: each handle is put in front of the stored ones *)
RECURSIVE pushLoop_Front(_, _, _)
pushLoop_Front(arr, dataPoints, i) ==
    IF i > Len(dataPoints) THEN [err |-> "ok", arr |-> arr]
    ELSE IF ~isInitialized(dataPoints[i]) THEN [err |-> "NotInitialized", arr |-> arr]
    ELSE pushLoop_Front(<<dataPoints[i]>> \o arr, dataPoints, i + 1)

(* faulty variant: an unset handle is skipped instead of reverting the call *)
RECURSIVE pushLoop_SkipInvalid(_, _, _)
pushLoop_SkipInvalid(arr, dataPoints, i) ==
    IF i > Len(dataPoints) THEN [err |-> "ok", arr |-> arr]
    ELSE IF ~isInitialized(dataPoints[i]) THEN pushLoop_SkipInvalid(arr, dataPoints, i + 1)
    ELSE pushLoop_SkipInvalid(Append(arr, dataPoints[i]), dataPoints, i + 1)

RECURSIVE pushLoop(_, _, _)
pushLoop(arr, dataPoints, i) ==
    IF i > Len(dataPoints) THEN [err |-> "ok", arr |-> arr]
    ELSE IF ~isInitialized(dataPoints[i]) THEN [err |-> "NotInitialized", arr |-> arr]
    ELSE pushLoop(Append(arr, dataPoints[i]), dataPoints, i + 1)

(* faulty variant: the batch is not required to be open *)
submitDataErr_NoOpenCheck(sender, batchId, dataPoints) ==
    IF ~onlyProvider(sender) THEN "NotProvider"
    ELSE IF paused THEN "Paused"
    ELSE IF submissionRateLimited(sender) # "ok" THEN submissionRateLimited(sender)
    ELSE pushLoop(encryptedDataBatches[batchId], dataPoints, 1).err

(* faulty variant: an empty list is rejected *)
submitDataErr_RejectEmpty(sender, batchId, dataPoints) ==
    IF ~onlyProvider(sender) THEN "NotProvider"
    ELSE IF paused THEN "Paused"
    ELSE IF submissionRateLimited(sender) # "ok" THEN submissionRateLimited(sender)
    ELSE IF ~isBatchOpen[batchId] THEN "InvalidBatch"
    ELSE IF Len(dataPoints) = 0 THEN "InvalidParameter"
    ELSE pushLoop(encryptedDataBatches[batchId], dataPoints, 1).err

submitDataErr(sender, batchId, dataPoints) ==
    IF ~onlyProvider(sender) THEN "NotProvider"
    ELSE IF paused THEN "Paused"
    ELSE IF submissionRateLimited(sender) # "ok" THEN submissionRateLimited(sender)
    ELSE IF ~isBatchOpen[batchId] THEN "InvalidBatch"
    ELSE pushLoop(encryptedDataBatches[batchId], dataPoints, 1).err

submitData(sender, batchId, dataPoints) ==
    LET e == submitDataErr(sender, batchId, dataPoints)
        pushed == pushLoop(encryptedDataBatches[batchId], dataPoints, 1).arr IN
    /\ lastSubmissionTime' = stampTime(lastSubmissionTime, sender, e)
    /\ encryptedDataBatches' =
          IF e = "ok" THEN [encryptedDataBatches EXCEPT ![batchId] = pushed]
          ELSE encryptedDataBatches
    /\ submittedCount' =
          IF e = "ok" THEN [submittedCount EXCEPT ![batchId] = @ + Len(dataPoints)]
          ELSE submittedCount
    /\ okSubmitAt' = IF e = "ok" THEN [okSubmitAt EXCEPT ![sender] = now] ELSE okSubmitAt
    /\ Call("submitData", sender, <<batchId, dataPoints>>, e,
                    <<"DataSubmitted", sender, batchId, Len(dataPoints)>>)
    /\ UNCHANGED <<owner, isProvider, paused, cooldownSeconds, lastDecryptionRequestTime,
                   currentBatchId, isBatchOpen, decryptionContexts, now, counterRequest,
                   closedEver, completedCount, rejected, okRequestAt>>

(* --------------------------- DecryptionBroker -------------------------- *)
(* faulty variant: the batch is not required to be closed *)
requestDiscoveryErr_NoClosedCheck(sender, batchId) ==
    IF ~onlyProvider(sender) THEN "NotProvider"
    ELSE IF paused THEN "Paused"
    ELSE IF decryptionRequestRateLimited(sender) # "ok"
         THEN decryptionRequestRateLimited(sender)
    ELSE IF Len(encryptedDataBatches[batchId]) = 0 THEN "InvalidBatch"
    ELSE "ok"

requestDiscoveryErr(sender, batchId) ==
    IF ~onlyProvider(sender) THEN "NotProvider"
    ELSE IF paused THEN "Paused"
    ELSE IF decryptionRequestRateLimited(sender) # "ok"
         THEN decryptionRequestRateLimited(sender)
    ELSE IF isBatchOpen[batchId] THEN "InvalidBatch"
    ELSE IF Len(encryptedDataBatches[batchId]) = 0 THEN "InvalidBatch"
    ELSE "ok"

requestDiscovery(sender, batchId) ==
    LET e == requestDiscoveryErr(sender, batchId)
        requestId == counterRequest
        stateHash == aggregateHash(batchId) IN
    /\ lastDecryptionRequestTime' = stampTime(lastDecryptionRequestTime, sender, e)
    /\ counterRequest' = IF e = "ok" THEN counterRequest + 1 ELSE counterRequest
    /\ decryptionContexts' =
          IF e = "ok"
          THEN [decryptionContexts EXCEPT ![requestId] =
                   [batchId |-> batchId, stateHash |-> stateHash, processed |-> FALSE]]
          ELSE decryptionContexts
    /\ okRequestAt' = IF e = "ok" THEN [okRequestAt EXCEPT ![sender] = now] ELSE okRequestAt
    /\ Call("requestDiscovery", sender, <<batchId>>, e,
                    <<"DecryptionRequested", requestId, batchId>>)
    /\ UNCHANGED <<owner, isProvider, paused, cooldownSeconds, lastSubmissionTime,
                   currentBatchId, isBatchOpen, encryptedDataBatches, now,
                   closedEver, completedCount, rejected, submittedCount, okSubmitAt>>

(* faulty variant: no replay check *)
myCallbackErr_NoReplay(requestId, cleartexts, proof) ==
    IF aggregateHash(decryptionContexts[requestId].batchId)
         # decryptionContexts[requestId].stateHash THEN "StateMismatch"
    ELSE IF ~checkSignatures(requestId, cleartexts, proof) THEN "InvalidProof"
    ELSE "ok"

(* faulty variant: no state-hash check *)
myCallbackErr_NoHash(requestId, cleartexts, proof) ==
    IF decryptionContexts[requestId].processed THEN "ReplayDetected"
    ELSE IF ~checkSignatures(requestId, cleartexts, proof) THEN "InvalidProof"
    ELSE "ok"

(* faulty variant: no proof check *)
myCallbackErr_NoProof(requestId, cleartexts, proof) ==
    IF decryptionContexts[requestId].processed THEN "ReplayDetected"
    ELSE IF aggregateHash(decryptionContexts[requestId].batchId)
              # decryptionContexts[requestId].stateHash THEN "StateMismatch"
    ELSE "ok"

(* faulty variant: the proof is checked before the replay flag and the digest *)
myCallbackErr_ProofFirst(requestId, cleartexts, proof) ==
    IF ~checkSignatures(requestId, cleartexts, proof) THEN "InvalidProof"
    ELSE IF decryptionContexts[requestId].processed THEN "ReplayDetected"
    ELSE IF aggregateHash(decryptionContexts[requestId].batchId)
              # decryptionContexts[requestId].stateHash THEN "StateMismatch"
    ELSE "ok"

(* faulty variant: myCallback with whenNotPaused *)
myCallbackErr_WhenNotPaused(requestId, cleartexts, proof) ==
    IF paused THEN "Paused"
    ELSE IF decryptionContexts[requestId].processed THEN "ReplayDetected"
    ELSE IF aggregateHash(decryptionContexts[requestId].batchId)
              # decryptionContexts[requestId].stateHash THEN "StateMismatch"
    ELSE IF ~checkSignatures(requestId, cleartexts, proof) THEN "InvalidProof"
    ELSE "ok"

myCallbackErr(requestId, cleartexts, proof) ==
    IF decryptionContexts[requestId].processed THEN "ReplayDetected"
    ELSE IF aggregateHash(decryptionContexts[requestId].batchId)
              # decryptionContexts[requestId].stateHash THEN "StateMismatch"
    ELSE IF ~checkSignatures(requestId, cleartexts, proof) THEN "InvalidProof"
    ELSE "ok"

(* faulty variant: the flag is written before the proof check and survives its failure *)
markProcessed_Early(requestId, e) ==
    IF e \in {"ok", "InvalidProof"}
    THEN [decryptionContexts EXCEPT ![requestId].processed = TRUE]
    ELSE decryptionContexts

(* faulty variant: every context of the same batch is finalized with it *)
markProcessed_WholeBatch(requestId, e) ==
    IF e = "ok"
    THEN [r \in RequestIds |->
            IF decryptionContexts[r].batchId = decryptionContexts[requestId].batchId
               /\ decryptionContexts[r].stateHash = decryptionContexts[requestId].stateHash
            THEN [decryptionContexts[r] EXCEPT !.processed = TRUE]
            ELSE decryptionContexts[r]]
    ELSE decryptionContexts

(* faulty variant: the context is deleted once it has been finalized *)
markProcessed_Delete(requestId, e) ==
    IF e = "ok" THEN [decryptionContexts EXCEPT ![requestId] = NoContext]
    ELSE decryptionContexts

(* the storage write of myCallback; a revert discards it *)
markProcessed(requestId, e) ==
    IF e = "ok" THEN [decryptionContexts EXCEPT ![requestId].processed = TRUE]
    ELSE decryptionContexts

myCallback(requestId, cleartexts, proof) ==
    LET e == myCallbackErr(requestId, cleartexts, proof)
        result == abiDecode(cleartexts) IN
    /\ decryptionContexts' = markProcessed(requestId, e)
    /\ completedCount' =
          IF e = "ok" THEN [completedCount EXCEPT ![requestId] = @ + 1] ELSE completedCount
    /\ rejected' =
          IF e \in {"StateMismatch", "InvalidProof"}
          THEN [rejected EXCEPT ![requestId] = TRUE] ELSE rejected
    /\ Call("myCallback", Oracle, <<requestId, cleartexts, proof>>, e,
                    <<"DecryptionCompleted", requestId,
                      decryptionContexts[requestId].batchId, result>>)
    /\ UNCHANGED <<owner, isProvider, paused, cooldownSeconds, lastSubmissionTime,
                   lastDecryptionRequestTime, currentBatchId, isBatchOpen,
                   encryptedDataBatches, now, counterRequest,
                   closedEver, submittedCount, okSubmitAt, okRequestAt>>

(* ------------------------------ behaviours ----------------------------- *)
(* euint32 input handles: 0 is the unset handle, 1 and 2 are initialized     *)
DataPoints == {<<>>, <<1>>, <<2>>, <<1, 2>>, <<0>>, <<1, 0>>, <<0, 1>>}
FewDataPoints == {<<>>, <<1>>, <<0>>}

Admin ==
    /\ adminCalls < MaxAdminCalls
    /\ \/ \E s \in Senders, a \in Addresses : transferOwnership(s, a)
       \/ \E s \in Senders, a \in Addresses : addProvider(s, a)
       \/ \E s \in Senders, a \in Addresses : removeProvider(s, a)
       \/ \E s \in Senders, b \in BOOLEAN : setPaused(s, b)
       \/ \E s \in Senders, c \in Cooldowns : setCooldownSeconds(s, c)

Batches(maxBatches, dataPoints) ==
    \/ \E s \in Senders : currentBatchId < maxBatches /\ openBatch(s)
    \/ \E s \in Senders, b \in BatchIds : closeBatch(s, b)
    \/ \E s \in Senders, b \in BatchIds, d \in dataPoints :
          /\ Len(encryptedDataBatches[b]) + Len(d) <= MaxBatchLen
          /\ submitData(s, b, d)

Requests ==
    \E s \in Senders, b \in BatchIds :
        counterRequest < MaxRequests /\ requestDiscovery(s, b)

Callbacks ==
    \E r \in RequestIds, c \in Cleartexts, p \in Proofs : myCallback(r, c, p)

(* Every operation of the contract, with the clock.                          *)
Next == Tick \/ Admin \/ Batches(MaxBatches, DataPoints) \/ Requests \/ Callbacks
Spec == Init /\ [][Next]_vars

(* The decryption protocol over one batch, within one block.                 *)
NextBroker == Admin \/ Batches(OneBatch, FewDataPoints) \/ Requests \/ Callbacks
SpecBroker == Init /\ [][NextBroker]_vars

(* The batch store: several batches, no decryption requests.                 *)
NextBatches == Admin \/ Batches(MaxBatches, DataPoints)
SpecBatches == Init /\ [][NextBatches]_vars

(* The rate limiter: the clock advances, one batch, requests without callbacks *)
NextRate == Tick \/ Admin \/ Batches(OneBatch, FewDataPoints) \/ Requests
SpecRate == Init /\ [][NextRate]_vars

(* The decryption protocol with an oracle that does deliver: for every       *)
(* request id the callback carrying the oracle's signed cleartext is not     *)
(* withheld forever.                                                         *)
deliver(requestId) ==
    \E c \in Cleartexts :
        myCallback(requestId, c, [rid |-> requestId, ct |-> c, signed |-> TRUE])
SpecOracle ==
    Init /\ [][NextBroker]_vars /\ \A r \in RequestIds : WF_vars(deliver(r))

(* ------------------------------- claims -------------------------------- *)
Signed(r, c) == [rid |-> r, ct |-> c, signed |-> TRUE]
Issued(r) == r < counterRequest
Matches(r) ==
    aggregateHash(decryptionContexts[r].batchId) = decryptionContexts[r].stateHash

(* C1: once a myCallback call for a requestId has succeeded, every later     *)
(* myCallback call for it fails with ReplayDetected, whatever it carries, so *)
(* DecryptionCompleted is emitted at most once per requestId.                *)
C1_SingleUse ==
    \A r \in RequestIds :
        completedCount[r] >= 1 =>
            /\ completedCount[r] = 1
            /\ \A c \in Cleartexts, p \in Proofs :
                  myCallbackErr(r, c, p) = "ReplayDetected"

C1_Witness ==
    \E r \in RequestIds :
        /\ completedCount[r] = 1
        /\ last.op \in AdminOps
        /\ myCallbackErr(r, <<20000>>, Signed(r, <<20000>>)) = "ReplayDetected"

(* C2, as stated: a myCallback call for a requestId that requestDiscovery    *)
(* never returned fails with ReplayDetected.                                 *)
C2_Original ==
    \A r \in RequestIds :
        ~Issued(r) =>
            \A c \in Cleartexts, p \in Proofs : myCallbackErr(r, c, p) = "ReplayDetected"

(* C2, amended: a myCallback call for a requestId that has no context fails  *)
(* with StateMismatch, whatever cleartext and proof it carries, and the      *)
(* context stays absent.                                                     *)
C2_NoContextStateMismatch ==
    \A r \in RequestIds :
        ~Issued(r) =>
            /\ decryptionContexts[r] = NoContext
            /\ completedCount[r] = 0
            /\ \A c \in Cleartexts, p \in Proofs : myCallbackErr(r, c, p) = "StateMismatch"

C2_Witness ==
    \E r \in RequestIds :
        /\ ~Issued(r)
        /\ rejected[r]
        /\ counterRequest > 0
        /\ myCallbackErr(r, <<20000>>, Signed(r, <<20000>>)) = "StateMismatch"

(* C3, as stated: once a myCallback call for a requestId has failed with     *)
(* StateMismatch or InvalidProof, no later myCallback call for it succeeds.  *)
C3_Original ==
    \A r \in RequestIds : rejected[r] => completedCount[r] = 0

(* C3, amended: a myCallback call that fails with StateMismatch or           *)
(* InvalidProof changes nothing in the contract, so the request is not       *)
(* terminal: an issued, unprocessed request that was rejected is still       *)
(* completed by a later myCallback call whose pair verifies.                 *)
C3_RejectionChangesNothing ==
    /\ [](\A r \in RequestIds :
            (rejected[r] /\ Issued(r) /\ ~decryptionContexts[r].processed) =>
                \A c \in Cleartexts : myCallbackErr(r, c, Signed(r, c)) = "ok")
    /\ [][\A r \in RequestIds :
            (rejected'[r] /\ ~rejected[r]) =>
                (storage' = storage /\ last' = last /\ completedCount' = completedCount)]_vars

C3_Witness ==
    \E r \in RequestIds :
        rejected[r] /\ completedCount[r] = 1 /\ decryptionContexts[r].processed

(* C4: for an issued, unprocessed requestId a myCallback call whose pair     *)
(* verifies succeeds; a successful call sets processed and emits             *)
(* DecryptionCompleted with the requestId, the stored batchId and the        *)
(* decoded cleartext.                                                        *)
C4_VerifiedCallbackCompletes ==
    /\ \A r \in RequestIds :
          (Issued(r) /\ ~decryptionContexts[r].processed) =>
              \A c \in Cleartexts : myCallbackErr(r, c, Signed(r, c)) = "ok"
    /\ last.op = "myCallback" =>
          LET r == last.args[1] IN
          /\ Issued(r)
          /\ decryptionContexts[r].processed
          /\ completedCount[r] = 1
          /\ last.ev = <<"DecryptionCompleted", r, decryptionContexts[r].batchId,
                         last.args[2][1]>>

C4_Witness ==
    /\ last.op = "myCallback"
    /\ last.ev = <<"DecryptionCompleted", 0, 1, 20000>>
    /\ ~isBatchOpen[1]
    /\ Len(encryptedDataBatches[1]) = MaxBatchLen

(* C5: myCallback finalizes a request only if the digest of the aggregate    *)
(* recomputed at callback time equals the stored stateHash; when it differs, *)
(* myCallback fails with StateMismatch and the context stays unprocessed,    *)
(* even when the proof verifies.                                             *)
C5_StateBinding ==
    \A r \in RequestIds :
        /\ decryptionContexts[r].processed => Matches(r)
        /\ (~decryptionContexts[r].processed /\ ~Matches(r)) =>
              \A c \in Cleartexts, p \in Proofs : myCallbackErr(r, c, p) = "StateMismatch"

C5_Witness ==
    \E r \in RequestIds :
        /\ rejected[r]
        /\ ~Matches(r)
        /\ ~decryptionContexts[r].processed
        /\ checkSignatures(r, <<7>>, Signed(r, <<7>>))
        /\ myCallbackErr(r, <<7>>, Signed(r, <<7>>)) = "StateMismatch"
        /\ \E q \in RequestIds : decryptionContexts[q].processed

(* C6: no request is completed with a pair that does not verify for its own  *)
(* requestId: on an existing, unprocessed, state-matching context myCallback *)
(* fails with InvalidProof for every such pair, also one that verifies for   *)
(* another requestId.                                                        *)
C6_InvalidProofRejected ==
    /\ \A r \in RequestIds :
          (Issued(r) /\ ~decryptionContexts[r].processed /\ Matches(r)) =>
              \A c \in Cleartexts, p \in Proofs :
                  ~checkSignatures(r, c, p) => myCallbackErr(r, c, p) = "InvalidProof"
    /\ last.op = "myCallback" =>
          checkSignatures(last.args[1], last.args[2], last.args[3])

C6_Witness ==
    \E r, q \in RequestIds :
        /\ r # q
        /\ Issued(r) /\ Issued(q)
        /\ rejected[r]
        /\ ~decryptionContexts[r].processed
        /\ checkSignatures(q, <<20000>>, Signed(q, <<20000>>))
        /\ myCallbackErr(r, <<20000>>, Signed(q, <<20000>>)) = "InvalidProof"

(* C7: once closeBatch(id) has succeeded, no later submitData(id, ...) call  *)
(* succeeds, for any caller; a call that passes the provider, pause and      *)
(* cooldown gates fails with InvalidBatch.                                   *)
C7_ClosedImmutability ==
    \A b \in BatchIds :
        closedEver[b] =>
            \A s \in Senders, d \in DataPoints :
                /\ submitDataErr(s, b, d) # "ok"
                /\ (onlyProvider(s) /\ ~paused /\ submissionRateLimited(s) = "ok") =>
                      submitDataErr(s, b, d) = "InvalidBatch"

C7_Witness ==
    \E b \in BatchIds, s \in Senders :
        /\ closedEver[b]
        /\ currentBatchId > b
        /\ isBatchOpen[currentBatchId]
        /\ onlyProvider(s) /\ ~paused /\ submissionRateLimited(s) = "ok"
        /\ Len(encryptedDataBatches[b]) > 0
        /\ submitDataErr(s, b, <<1>>) = "InvalidBatch"

(* C8: once closeBatch(id) has succeeded, isBatchOpen[id] is false in every  *)
(* later state; no operation opens that batch again.                         *)
C8_ClosingIsTerminal ==
    \A b \in BatchIds : closedEver[b] => ~isBatchOpen[b]

C8_Witness ==
    /\ closedEver[1]
    /\ ~isBatchOpen[1]
    /\ isBatchOpen[2]
    /\ last.op = "transferOwnership"
    /\ paused

IsPrefix(a, b) == Len(a) <= Len(b) /\ SubSeq(b, 1, Len(a)) = a

(* C9: across every operation each batch's value sequence keeps its former   *)
(* contents as a prefix; a successful submitData(batchId, values) appends    *)
(* exactly the supplied values to that batch; a batch's length equals the    *)
(* sum of the counts of the DataSubmitted events for it.                     *)
C9_AppendOnly ==
    /\ [](\A b \in BatchIds : Len(encryptedDataBatches[b]) = submittedCount[b])
    /\ [][/\ \A b \in BatchIds :
               IsPrefix(encryptedDataBatches[b], encryptedDataBatches'[b])
          /\ (okSubmitAt' # okSubmitAt \/ encryptedDataBatches' # encryptedDataBatches
                \/ submittedCount' # submittedCount) =>
                /\ last'.op = "submitData"
                /\ encryptedDataBatches' =
                      [encryptedDataBatches EXCEPT ![last'.args[1]] = @ \o last'.args[2]]
                /\ Len(encryptedDataBatches'[last'.args[1]]) =
                      Len(encryptedDataBatches[last'.args[1]]) + Len(last'.args[2])
                /\ last'.ev = <<"DataSubmitted", last'.sender, last'.args[1],
                                Len(last'.args[2])>>]_vars

C9_Witness ==
    /\ last.op = "submitData"
    /\ last.args = <<1, <<2>>>>
    /\ encryptedDataBatches[1] = <<1, 2>>
    /\ submittedCount[1] = 2

Initialized(d) == \A i \in 1..Len(d) : isInitialized(d[i])
Expected(t1) == IF now - t1 < cooldownSeconds THEN "CooldownActive" ELSE "ok"
ExpectedChecked(t1) == IF t1 + cooldownSeconds > UintMax THEN "Panic" ELSE Expected(t1)

LastOk(t) == IF t = Never THEN 0 ELSE t

(* C11: a submitData or requestDiscovery call that fails, for whatever       *)
(* reason, leaves the caller's lastSubmissionTime and                        *)
(* lastDecryptionRequestTime as they were: each always holds the time of the *)
(* caller's last successful call, and a later attempt is judged against it.  *)
C11_RejectedNeverStamps ==
    \A a \in Addresses :
        /\ lastSubmissionTime[a] = LastOk(okSubmitAt[a])
        /\ lastDecryptionRequestTime[a] = LastOk(okRequestAt[a])
        /\ submissionRateLimited(a) = rateLimited(LastOk(okSubmitAt[a]))
        /\ decryptionRequestRateLimited(a) = rateLimited(LastOk(okRequestAt[a]))

C11_Witness ==
    \E p \in Senders :
        /\ onlyProvider(p) /\ ~paused
        /\ okSubmitAt[p] = 1 /\ okRequestAt[p] = Never /\ now = MaxTime
        /\ isBatchOpen[1]
        /\ submitDataErr(p, 0, <<1>>) = "InvalidBatch"
        /\ submitDataErr(p, 1, <<0>>) = "NotInitialized"
        /\ requestDiscoveryErr(p, 1) = "InvalidBatch"
        /\ lastSubmissionTime[p] = 1 /\ lastDecryptionRequestTime[p] = 0

(* C12, as stated: in every reachable state owner is not the zero address.   *)
C12_OwnerNeverZero == owner # ZeroAddress

(* C13: every call of transferOwnership, addProvider, removeProvider,        *)
(* setPaused, setCooldownSeconds, openBatch or closeBatch by a caller that   *)
(* is not the current owner fails with NotOwner, and every step that changes *)
(* owner, the provider set, paused, cooldownSeconds or a batch's open flag   *)
(* is a call made by the owner of the state before it.                       *)
C13_NoSelfElevation ==
    /\ [](\A s \in Senders :
            ~onlyOwner(s) =>
                /\ \A a \in Addresses :
                      /\ transferOwnershipErr(s, a) = "NotOwner"
                      /\ addProviderErr(s, a) = "NotOwner"
                      /\ removeProviderErr(s, a) = "NotOwner"
                /\ \A b \in BOOLEAN : setPausedErr(s, b) = "NotOwner"
                /\ \A c \in Cooldowns : setCooldownSecondsErr(s, c) = "NotOwner"
                /\ openBatchErr(s) = "NotOwner"
                /\ \A b \in BatchIds : closeBatchErr(s, b) = "NotOwner")
    /\ [][<<owner, isProvider, paused, cooldownSeconds, isBatchOpen, currentBatchId>>'
             # <<owner, isProvider, paused, cooldownSeconds, isBatchOpen, currentBatchId>>
           => /\ last'.sender = owner
              /\ last'.op \in AdminOps \cup {"openBatch", "closeBatch"}]_vars

C13_Witness ==
    /\ owner = Other
    /\ isProvider[Deployer] /\ ~isProvider[Other]
    /\ ~paused
    /\ isBatchOpen[1]
    /\ closeBatchErr(Deployer, 1) = "NotOwner"
    /\ openBatchErr(Deployer) = "NotOwner"
    /\ transferOwnershipErr(Deployer, Deployer) = "NotOwner"

(* C14: a submitData or requestDiscovery call by a caller that is not in the *)
(* provider set fails with NotProvider, whatever the pause, cooldown and     *)
(* batch state.                                                              *)
C14_NotProviderFirst ==
    \A s \in Senders :
        ~isProvider[s] =>
            \A b \in BatchIds :
                /\ requestDiscoveryErr(s, b) = "NotProvider"
                /\ \A d \in DataPoints : submitDataErr(s, b, d) = "NotProvider"

C14_Witness ==
    /\ last.op = "removeProvider"
    /\ last.args = <<Other>>
    /\ ~isProvider[Other] /\ ~isProvider[owner]
    /\ okSubmitAt[Other] = 1
    /\ isBatchOpen[1] /\ ~paused
    /\ Len(encryptedDataBatches[1]) = 1
    /\ submitDataErr(Other, 1, <<1>>) = "NotProvider"
    /\ submitDataErr(owner, 1, <<1>>) = "NotProvider"
    /\ requestDiscoveryErr(Other, 1) = "NotProvider"

(* C15: submitData is all-or-nothing: a call that passes the gates on an     *)
(* open batch and carries an unset handle, at whatever position, fails with  *)
(* NotInitialized; no batch ever holds an unset handle or part of a rejected *)
(* list, and every DataSubmitted event is for a list of initialized handles. *)
C15_AllOrNothing ==
    /\ \A b \in BatchIds :
          /\ Initialized(encryptedDataBatches[b])
          /\ Len(encryptedDataBatches[b]) = submittedCount[b]
    /\ \A s \in Senders, b \in BatchIds, d \in DataPoints :
          (onlyProvider(s) /\ ~paused /\ submissionRateLimited(s) = "ok"
             /\ isBatchOpen[b] /\ ~Initialized(d)) =>
                submitDataErr(s, b, d) = "NotInitialized"
    /\ last.op = "submitData" => Initialized(last.args[2])

C15_Witness ==
    \E p \in Senders :
        /\ onlyProvider(p) /\ ~paused /\ submissionRateLimited(p) = "ok"
        /\ isBatchOpen[1]
        /\ encryptedDataBatches[1] = <<2>>
        /\ last.op = "submitData"
        /\ submitDataErr(p, 1, <<1, 0>>) = "NotInitialized"
        /\ pushLoop(encryptedDataBatches[1], <<1, 0>>, 1).arr = <<2, 1>>
        /\ submitDataErr(p, 1, <<0, 1>>) = "NotInitialized"

(* C16: a requestDiscovery call that passes the provider, pause and cooldown *)
(* gates fails with InvalidBatch when the batch is open or holds no values   *)
(* (also for an id never opened); every context ever created references a    *)
(* batch that was closed and non-empty, and stays so in every later state.   *)
C16_RequestNeedsClosedNonEmpty ==
    /\ \A s \in Senders, b \in BatchIds :
          (onlyProvider(s) /\ ~paused /\ decryptionRequestRateLimited(s) = "ok"
             /\ (isBatchOpen[b] \/ Len(encryptedDataBatches[b]) = 0)) =>
                requestDiscoveryErr(s, b) = "InvalidBatch"
    /\ \A r \in RequestIds :
          Issued(r) =>
              LET b == decryptionContexts[r].batchId IN
              /\ closedEver[b]
              /\ ~isBatchOpen[b]
              /\ Len(encryptedDataBatches[b]) > 0
    /\ last.op = "requestDiscovery" =>
          /\ closedEver[last.args[1]]
          /\ decryptionContexts[last.ev[2]].batchId = last.args[1]

C16_Witness ==
    \E p \in Senders :
        /\ Issued(0)
        /\ last.op = "requestDiscovery"
        /\ decryptionContexts[0].batchId = 1
        /\ onlyProvider(p) /\ ~paused /\ decryptionRequestRateLimited(p) = "ok"
        /\ requestDiscoveryErr(p, 0) = "InvalidBatch"
        /\ requestDiscoveryErr(p, 2) = "InvalidBatch"
        /\ requestDiscoveryErr(p, 1) = "ok"

(* C17: once requestDiscovery has stored a context its batchId and stateHash *)
(* never change, its processed flag changes only from false to true and only *)
(* by a successful myCallback for that requestId, and a context is created   *)
(* only by requestDiscovery, unprocessed, under the fresh requestId.         *)
C17_ContextWrittenOnce ==
    /\ [](\A r \in RequestIds :
            /\ decryptionContexts[r].processed => (Issued(r) /\ completedCount[r] = 1)
            /\ ~Issued(r) => decryptionContexts[r] = NoContext)
    /\ [][\A r \in RequestIds :
            /\ Issued(r) =>
                  /\ decryptionContexts'[r].batchId = decryptionContexts[r].batchId
                  /\ decryptionContexts'[r].stateHash = decryptionContexts[r].stateHash
                  /\ decryptionContexts[r].processed => decryptionContexts'[r].processed
                  /\ decryptionContexts'[r].processed # decryptionContexts[r].processed =>
                        /\ last'.op = "myCallback"
                        /\ last'.args[1] = r
            /\ (~Issued(r) /\ decryptionContexts'[r] # decryptionContexts[r]) =>
                  /\ last'.op = "requestDiscovery"
                  /\ r = counterRequest /\ counterRequest' = r + 1
                  /\ ~decryptionContexts'[r].processed]_vars

C17_Witness ==
    \E r, q \in RequestIds :
        /\ r # q
        /\ Issued(r) /\ Issued(q)
        /\ decryptionContexts[r].processed /\ completedCount[r] = 1
        /\ ~decryptionContexts[q].processed
        /\ decryptionContexts[q].stateHash = decryptionContexts[r].stateHash
        /\ last.op = "setPaused"

(* C18: while paused, openBatch by the owner and submitData and              *)
(* requestDiscovery by a provider fail with Paused; transferOwnership,       *)
(* addProvider, removeProvider, setPaused, setCooldownSeconds and closeBatch *)
(* by the owner, and myCallback, give the outcome they give when not paused. *)
C18_PauseGates ==
    paused =>
        /\ \A s \in Senders :
              /\ onlyOwner(s) => openBatchErr(s) = "Paused"
              /\ onlyProvider(s) =>
                    \A b \in BatchIds :
                        /\ requestDiscoveryErr(s, b) = "Paused"
                        /\ \A d \in DataPoints : submitDataErr(s, b, d) = "Paused"
              /\ onlyOwner(s) =>
                    /\ \A a \in Addresses :
                          /\ transferOwnershipErr(s, a) = "ok"
                          /\ addProviderErr(s, a) =
                                IF a = ZeroAddress THEN "InvalidParameter" ELSE "ok"
                          /\ removeProviderErr(s, a) =
                                IF isProvider[a] THEN "ok" ELSE "InvalidParameter"
                    /\ \A b \in BOOLEAN : setPausedErr(s, b) = "ok"
                    /\ \A c \in Cooldowns : setCooldownSecondsErr(s, c) = "ok"
                    /\ \A b \in BatchIds :
                          closeBatchErr(s, b) =
                              IF isBatchOpen[b] THEN "ok" ELSE "InvalidBatch"
        /\ \A r \in RequestIds, c \in Cleartexts, p \in Proofs :
              myCallbackErr(r, c, p) =
                  IF decryptionContexts[r].processed THEN "ReplayDetected"
                  ELSE IF ~Matches(r) THEN "StateMismatch"
                  ELSE IF ~checkSignatures(r, c, p) THEN "InvalidProof"
                  ELSE "ok"

C18_Witness ==
    /\ paused
    /\ last.op = "myCallback"
    /\ decryptionContexts[0].processed
    /\ onlyOwner(Deployer) /\ onlyProvider(Deployer)
    /\ openBatchErr(Deployer) = "Paused"
    /\ submitDataErr(Deployer, 1, <<1>>) = "Paused"
    /\ requestDiscoveryErr(Deployer, 1) = "Paused"
    /\ setPausedErr(Deployer, FALSE) = "ok"

(* C20: for every requestId issued by requestDiscovery the digest recomputed *)
(* in myCallback equals the stored stateHash in every later state, because   *)
(* the batch is closed and accepts no values: no myCallback call for an      *)
(* issued requestId fails with StateMismatch.                                *)
C20_NoMismatchForIssued ==
    \A r \in RequestIds :
        Issued(r) =>
            /\ Matches(r)
            /\ \A s \in Senders, d \in DataPoints :
                  submitDataErr(s, decryptionContexts[r].batchId, d) # "ok"
            /\ \A c \in Cleartexts, p \in Proofs :
                  myCallbackErr(r, c, p) # "StateMismatch"

C20_Witness ==
    \E r \in RequestIds, p \in Senders :
        /\ Issued(r)
        /\ rejected[r]
        /\ ~decryptionContexts[r].processed
        /\ onlyProvider(p) /\ ~paused /\ submissionRateLimited(p) = "ok"
        /\ submitDataErr(p, decryptionContexts[r].batchId, <<1>>) = "InvalidBatch"
        /\ myCallbackErr(r, <<7>>, Forged) = "InvalidProof"
        /\ myCallbackErr(r, <<7>>, Signed(r, <<7>>)) = "ok"

RECURSIVE TrueSum(_, _)
TrueSum(data, i) == IF i > Len(data) THEN 0 ELSE plaintext[data[i]] + TrueSum(data, i + 1)

(* C19, as stated: for every non-empty batch for which a request was issued  *)
(* the aggregate sent for decryption decrypts to (sum of the batch's values  *)
(* * 1000) / count with truncating division, whatever the magnitudes.        *)
C19_TrueScaledAverage ==
    \A r \in RequestIds :
        Issued(r) =>
            LET data == encryptedDataBatches[decryptionContexts[r].batchId] IN
            decryptAverage(data) = (TrueSum(data, 1) * SCALE) \div Len(data)

(* C21: myCallback applies its checks in the order replay, state hash,       *)
(* proof: a processed request with a pair that does not verify gives         *)
(* ReplayDetected, an unprocessed request whose digest differs gives         *)
(* StateMismatch also with a pair that does not verify, and InvalidProof is  *)
(* given only to an unprocessed request whose digest matches.                *)
C21_CheckOrder ==
    \A r \in RequestIds, c \in Cleartexts, p \in Proofs :
        /\ (decryptionContexts[r].processed /\ ~checkSignatures(r, c, p)) =>
              myCallbackErr(r, c, p) = "ReplayDetected"
        /\ (~decryptionContexts[r].processed /\ ~Matches(r) /\ ~checkSignatures(r, c, p)) =>
              myCallbackErr(r, c, p) = "StateMismatch"
        /\ myCallbackErr(r, c, p) = "InvalidProof" =>
              (~decryptionContexts[r].processed /\ Matches(r))

C21_Witness ==
    \E r, q \in RequestIds :
        /\ decryptionContexts[r].processed
        /\ ~checkSignatures(r, <<7>>, Forged)
        /\ myCallbackErr(r, <<7>>, Forged) = "ReplayDetected"
        /\ ~decryptionContexts[q].processed /\ ~Matches(q)
        /\ ~checkSignatures(q, <<7>>, Signed(r, <<7>>))
        /\ myCallbackErr(q, <<7>>, Signed(r, <<7>>)) = "StateMismatch"
        /\ rejected[q] /\ rejected[r]

(* C22: a DecryptionCompleted event for a requestId occurs only after the    *)
(* DecryptionRequested event for it: only issued requestIds are ever         *)
(* completed, and a myCallback call for a requestId that requestDiscovery    *)
(* never issued does not succeed, whatever cleartext and proof it carries.   *)
C22_RequestPrecedesCompletion ==
    /\ \A r \in RequestIds :
          /\ completedCount[r] > 0 => Issued(r)
          /\ ~Issued(r) =>
                \A c \in Cleartexts, p \in Proofs : myCallbackErr(r, c, p) # "ok"
    /\ last.op = "myCallback" =>
          (last.ev[1] = "DecryptionCompleted" /\ Issued(last.ev[2]))
    /\ last.op = "requestDiscovery" =>
          (last.ev[1] = "DecryptionRequested" /\ last.ev[2] = counterRequest - 1
             /\ completedCount[last.ev[2]] = 0)

C22_Witness ==
    /\ last.op = "myCallback"
    /\ last.ev[2] = 0
    /\ counterRequest = 1
    /\ completedCount[0] = 1 /\ completedCount[1] = 0
    /\ rejected[1]
    /\ myCallbackErr(1, <<20000>>, Signed(1, <<20000>>)) # "ok"

(* C23: outstanding requests do not interfere: a myCallback call for         *)
(* requestId r changes no field of any context other than r's, and every     *)
(* issued, unprocessed request accepts a verifying callback whatever the     *)
(* state of the other contexts, so callbacks can complete in any order.      *)
C23_NoInterference ==
    /\ [](\A r \in RequestIds :
            (Issued(r) /\ ~decryptionContexts[r].processed) =>
                \A c \in Cleartexts : myCallbackErr(r, c, Signed(r, c)) = "ok")
    /\ [][\A r \in RequestIds :
            /\ (completedCount'[r] # completedCount[r]
                   \/ (Issued(r) /\ decryptionContexts'[r] # decryptionContexts[r])) =>
                  /\ last'.op = "myCallback"
                  /\ last'.args[1] = r
                  /\ decryptionContexts' =
                        [decryptionContexts EXCEPT ![r].processed = TRUE]
                  /\ completedCount' = [completedCount EXCEPT ![r] = 1]
            /\ rejected'[r] # rejected[r] => decryptionContexts' = decryptionContexts]_vars

C23_Witness ==
    /\ Issued(0) /\ Issued(1)
    /\ decryptionContexts[0].batchId = decryptionContexts[1].batchId
    /\ decryptionContexts[1].processed
    /\ ~decryptionContexts[0].processed
    /\ last.op = "myCallback" /\ last.args[1] = 1
    /\ rejected[0]
    /\ myCallbackErr(0, <<7>>, Signed(0, <<7>>)) = "ok"

(* C24: the two cooldown kinds are independent per principal: a step changes *)
(* lastSubmissionTime only as a successful submitData, and only the entry of *)
(* its sender, and lastDecryptionRequestTime only as a successful            *)
(* requestDiscovery, and only the entry of its sender; such a step leaves    *)
(* the other kind's gate of every principal, and the same kind's gate of     *)
(* every other principal, as it was.                                         *)
C24_CooldownsIndependent ==
    [][/\ lastSubmissionTime' # lastSubmissionTime =>
             /\ last'.op = "submitData"
             /\ lastSubmissionTime' =
                   [lastSubmissionTime EXCEPT ![last'.sender] = now]
             /\ lastDecryptionRequestTime' = lastDecryptionRequestTime
             /\ \A a \in Addresses :
                   /\ decryptionRequestRateLimited(a)' = decryptionRequestRateLimited(a)
                   /\ a # last'.sender =>
                         submissionRateLimited(a)' = submissionRateLimited(a)
       /\ lastDecryptionRequestTime' # lastDecryptionRequestTime =>
             /\ last'.op = "requestDiscovery"
             /\ lastDecryptionRequestTime' =
                   [lastDecryptionRequestTime EXCEPT ![last'.sender] = now]
             /\ lastSubmissionTime' = lastSubmissionTime
             /\ \A a \in Addresses :
                   /\ submissionRateLimited(a)' = submissionRateLimited(a)
                   /\ a # last'.sender =>
                         decryptionRequestRateLimited(a)' = decryptionRequestRateLimited(a)]_vars

C24_Witness ==
    \E p \in Senders :
        /\ cooldownSeconds = 1
        /\ onlyProvider(p) /\ ~paused
        /\ okSubmitAt[p] = now /\ okRequestAt[p] = Never
        /\ ~isBatchOpen[1]
        /\ submitDataErr(p, 1, <<1>>) = "CooldownActive"
        /\ requestDiscoveryErr(p, 1) = "ok"

(* C25, as stated: the rate gate has exactly two outcomes for every cooldown *)
(* the owner can set: CooldownActive when now < lastTimestamp +              *)
(* cooldownSeconds, also when that sum exceeds the unsigned range, and       *)
(* otherwise the call proceeds.                                              *)
C25_GateTwoOutcomes ==
    \A a \in Addresses :
        /\ submissionRateLimited(a) =
              IF now < lastSubmissionTime[a] + cooldownSeconds
              THEN "CooldownActive" ELSE "ok"
        /\ decryptionRequestRateLimited(a) =
              IF now < lastDecryptionRequestTime[a] + cooldownSeconds
              THEN "CooldownActive" ELSE "ok"

(* C26: batch ids are allocated densely from 1: a step changes               *)
(* currentBatchId only as a successful openBatch, to its former value plus   *)
(* 1, and opens exactly that id; only ids from 1 to currentBatchId are ever  *)
(* open, were ever closed or hold values.                                    *)
C26_DenseBatchIds ==
    /\ [](\A b \in BatchIds :
            (isBatchOpen[b] \/ closedEver[b] \/ Len(encryptedDataBatches[b]) > 0) =>
                (1 <= b /\ b <= currentBatchId))
    /\ [][/\ currentBatchId' >= currentBatchId
          /\ (currentBatchId' # currentBatchId \/ (last'.op = "openBatch" /\ last' # last)) =>
                /\ currentBatchId' = currentBatchId + 1
                /\ last'.op = "openBatch"
                /\ last'.ev = <<"BatchOpened", currentBatchId'>>
                /\ isBatchOpen' = [isBatchOpen EXCEPT ![currentBatchId'] = TRUE]
                /\ ~isBatchOpen[currentBatchId']
                /\ encryptedDataBatches'[currentBatchId'] = <<>>]_vars

C26_Witness ==
    /\ currentBatchId = MaxBatches
    /\ \A b \in 1..MaxBatches : isBatchOpen[b]
    /\ last.op = "openBatch"
    /\ Len(encryptedDataBatches[1]) > 0

(* C27: closeBatch(id) by the owner fails with InvalidBatch whenever id is   *)
(* not open: ids never allocated (0 or above currentBatchId) and ids already *)
(* closed, so closing a batch twice fails the second time.                   *)
C27_CloseNeedsOpen ==
    \A s \in Senders, b \in BatchIds :
        onlyOwner(s) =>
            /\ (b = 0 \/ b > currentBatchId \/ closedEver[b] \/ ~isBatchOpen[b]) =>
                  closeBatchErr(s, b) = "InvalidBatch"
            /\ (last.op = "closeBatch" /\ last.args[1] = b) =>
                  closeBatchErr(s, b) = "InvalidBatch"

C27_Witness ==
    /\ last.op = "closeBatch"
    /\ last.args = <<1>>
    /\ currentBatchId = 1
    /\ onlyOwner(Deployer) /\ paused
    /\ closeBatchErr(Deployer, 1) = "InvalidBatch"
    /\ closeBatchErr(Deployer, 0) = "InvalidBatch"
    /\ closeBatchErr(Deployer, 2) = "InvalidBatch"

(* C28: batches are independent: a step changes the open flag or the value   *)
(* sequence of a batch only as a successful submitData or closeBatch for     *)
(* that batch, or as the openBatch that allocates it; every other batch is   *)
(* left as it was, and several batches can be open at the same time.         *)
C28_BatchesIndependent ==
    [][\A b \in BatchIds :
          (isBatchOpen'[b] # isBatchOpen[b]
             \/ encryptedDataBatches'[b] # encryptedDataBatches[b]) =>
                \/ /\ last'.op = "submitData" /\ last'.args[1] = b
                    /\ isBatchOpen' = isBatchOpen
                    /\ encryptedDataBatches' =
                          [encryptedDataBatches EXCEPT ![b] = @ \o last'.args[2]]
                \/ /\ last'.op = "closeBatch" /\ last'.args[1] = b
                    /\ isBatchOpen' = [isBatchOpen EXCEPT ![b] = FALSE]
                    /\ encryptedDataBatches' = encryptedDataBatches
                \/ /\ last'.op = "openBatch" /\ b = currentBatchId + 1
                    /\ isBatchOpen' = [isBatchOpen EXCEPT ![b] = TRUE]
                    /\ encryptedDataBatches' = encryptedDataBatches]_vars

C28_Witness ==
    /\ isBatchOpen[1] /\ isBatchOpen[2]
    /\ encryptedDataBatches[1] = <<1>>
    /\ encryptedDataBatches[2] = <<2, 1>>
    /\ last.op = "submitData" /\ last.args[1] = 2

C30_EventualCompletion ==
    /\ \A r \in RequestIds : Issued(r) ~> decryptionContexts[r].processed
    /\ [][\A r \in RequestIds :
            decryptionContexts'[r].processed # decryptionContexts[r].processed =>
                /\ last'.op = "myCallback"
                /\ checkSignatures(r, last'.args[2], last'.args[3])]_vars

C30_Witness ==
    /\ owner = Other
    /\ ~isProvider[Other]
    /\ last.op = "myCallback"
    /\ last.args[1] = 0
    /\ decryptionContexts[0].processed
    /\ completedCount[0] = 1

(* C31: a submitData call with an empty list on an open batch, by a provider *)
(* that passes the pause and cooldown gates, succeeds; it leaves every       *)
(* batch's values unchanged, emits DataSubmitted with count 0 and records    *)
(* the current time as the caller's lastSubmissionTime.                      *)
C31_EmptySubmission ==
    /\ [](\A s \in Senders, b \in BatchIds :
            (onlyProvider(s) /\ ~paused /\ submissionRateLimited(s) = "ok"
               /\ isBatchOpen[b]) => submitDataErr(s, b, <<>>) = "ok")
    /\ [][(/\ last'.op = "submitData"
           /\ last'.args[2] = <<>>
           /\ (last' # last \/ lastSubmissionTime' # lastSubmissionTime
                  \/ okSubmitAt' # okSubmitAt)) =>
              /\ encryptedDataBatches' = encryptedDataBatches
              /\ submittedCount' = submittedCount
              /\ last'.ev = <<"DataSubmitted", last'.sender, last'.args[1], 0>>
              /\ lastSubmissionTime' =
                    [lastSubmissionTime EXCEPT ![last'.sender] = now]
              /\ okSubmitAt' = [okSubmitAt EXCEPT ![last'.sender] = now]]_vars

C31_Witness ==
    \E p \in Senders :
        /\ last.op = "submitData"
        /\ last.sender = p
        /\ last.args = <<1, <<>>>>
        /\ last.ev = <<"DataSubmitted", p, 1, 0>>
        /\ cooldownSeconds = 1
        /\ now = MaxTime
        /\ lastSubmissionTime[p] = now
        /\ isBatchOpen[1]
        /\ encryptedDataBatches[1] = <<>>
        /\ submitDataErr(p, 1, <<1>>) = "CooldownActive"

====
